---- MODULE Spec2Model ----
(***************************************************************************)
(* A model of the wellness-planner backend: the meal plan and workout plan *)
(* activation handlers, the workout session handlers, the chat services,   *)
(* the AI client's response parsing, the nutrition health score and the    *)
(* goal progress handler.  Every HTTP handler is one atomic action; the    *)
(* last request and its response are kept in req and resp.                 *)
(***************************************************************************)
EXTENDS Integers, Sequences, FiniteSets, TLC

VARIABLES
    mealPlans,      \* meal_plans table: row id = index, [user, is_active]
    workoutPlans,   \* workout_plans table: [user, status, completed_workouts]
    workouts,       \* workouts table: [user, status, started_at, completed_at, plan]
    sessions,       \* chat_sessions table
    messages,       \* chat_messages table
    contextItems,   \* chat_context table
    goals,          \* user_goals table
    now,            \* timezone.now()
    input,          \* argument of the pure function under study
    output,         \* its result
    pc,             \* which function was applied to input
    req,            \* the last request handled
    resp            \* the response to it

vars == <<mealPlans, workoutPlans, workouts, sessions, messages, contextItems,
          goals, now, input, output, pc, req, resp>>

(* ---------------------------- bounds ---------------------------------- *)
MaxMealPlans == 3
MaxWorkoutPlans == 3
MaxWorkouts == 1
MaxCompleted == 2
MaxSessions == 1
MaxMessages == 2
MaxContext == 3
MaxListLen == 2
MaxGoals == 1
MaxGoalValue == 1
MaxTime == 60
TickDays == 30

Users == {"u1", "u2"}

None == "None"
\* NULL in a nullable date-time column (real times are >= 0)
NullTime == -1
\* NULL in a nullable foreign key column (row ids start at 1)
NullId == 0

NoReq == [op |-> "none"]
NoResp == [status |-> 0]

(* The state of an empty database, before any request. *)
InitAll ==
    /\ mealPlans = <<>>
    /\ workoutPlans = <<>>
    /\ workouts = <<>>
    /\ sessions = <<>>
    /\ messages = <<>>
    /\ contextItems = <<>>
    /\ goals = <<>>
    /\ now = 0
    /\ input = None
    /\ output = None
    /\ pc = "idle"
    /\ req = NoReq
    /\ resp = NoResp

(* ======================= nutrition: meal plans ======================== *)

\* MealPlan.objects.filter(user=u): the row ids of u's meal plans
MealPlansOf(u) == {i \in DOMAIN mealPlans : mealPlans[i].user = u}

\* .filter(user=u, is_active=True).update(is_active=False)
DeactivateAllBroken(plans, u) == plans
DeactivateAll(plans, u) ==
    [i \in DOMAIN plans |->
        IF plans[i].user = u /\ plans[i].is_active
        THEN [plans[i] EXCEPT !.is_active = FALSE]
        ELSE plans[i]]

nonMealVars == <<workoutPlans, workouts, sessions, messages, contextItems,
                 goals, now, input, output, pc>>

\* MealPlanListCreateView.perform_create / save_meal_plan_to_db:
\* is_active is not among the create fields, so the column default applies
CreateMealPlan(u) ==
    /\ Len(mealPlans) < MaxMealPlans
    /\ mealPlans' = Append(mealPlans, [user |-> u, is_active |-> FALSE])
    /\ req' = [op |-> "create_meal_plan", user |-> u]
    /\ resp' = [status |-> 201]
    /\ UNCHANGED nonMealVars

\* MealPlanDetailView (PUT/PATCH): is_active is a writable serializer field
UpdateMealPlan(u, id, active) ==
    /\ req' = [op |-> "update_meal_plan", user |-> u, id |-> id]
    /\ IF id \in MealPlansOf(u)
       THEN /\ mealPlans' = [mealPlans EXCEPT ![id].is_active = active]
            /\ resp' = [status |-> 200]
       ELSE /\ mealPlans' = mealPlans
            /\ resp' = [status |-> 404]
    /\ UNCHANGED nonMealVars

\* activate_meal_plan: the deactivation runs before the lookup; Http404 from
\* get_object_or_404 is an Exception and ends in the 500 branch
ActivateMealPlan(u, id) ==
    LET deactivated == DeactivateAll(mealPlans, u) IN
    /\ req' = [op |-> "activate_meal_plan", user |-> u, id |-> id]
    /\ IF id \in MealPlansOf(u)
       THEN /\ mealPlans' = [deactivated EXCEPT ![id].is_active = TRUE]
            /\ resp' = [status |-> 200]
       ELSE /\ mealPlans' = deactivated
            /\ resp' = [status |-> 500]
    /\ UNCHANGED nonMealVars

NextMeal ==
    \/ \E u \in Users : CreateMealPlan(u)
    \/ \E u \in Users, id \in 1..MaxMealPlans, a \in BOOLEAN : UpdateMealPlan(u, id, a)
    \/ \E u \in Users, id \in 1..MaxMealPlans : ActivateMealPlan(u, id)

SpecMeal == InitAll /\ [][NextMeal]_vars

\* C1: after activate_meal_plan succeeds for plan P of user U, P is active and
\* no other meal plan of U is active.
C1_ActivatedAlone ==
    (req.op = "activate_meal_plan" /\ resp.status = 200) =>
        /\ req.id \in MealPlansOf(req.user)
        /\ mealPlans[req.id].is_active
        /\ \A i \in MealPlansOf(req.user) : mealPlans[i].is_active => i = req.id

\* a second plan of the same user that was active is now inactive
C1_Witness ==
    /\ req.op = "activate_meal_plan" /\ resp.status = 200
    /\ mealPlans[req.id].is_active
    /\ \E i \in MealPlansOf(req.user) : i # req.id /\ ~mealPlans[i].is_active

(* ======================= fitness: workout plans ======================= *)

\* the workout plan statuses the handlers read and write
WorkoutPlanStatuses == {"draft", "active", "paused"}

\* WorkoutPlanViewSet.get_queryset: the plans of the requesting user
WorkoutPlansOf(u) == {i \in DOMAIN workoutPlans : workoutPlans[i].user = u}

ActivePlansOf(plans, u) ==
    {i \in DOMAIN plans : plans[i].user = u /\ plans[i].status = "active"}

\* .filter(user=u, status='active').update(status='paused')
PauseActiveBroken(plans, u) == plans
PauseActive(plans, u) ==
    [i \in DOMAIN plans |->
        IF plans[i].user = u /\ plans[i].status = "active"
        THEN [plans[i] EXCEPT !.status = "paused"]
        ELSE plans[i]]

nonPlanVars == <<mealPlans, workouts, sessions, messages, contextItems,
                 goals, now, input, output, pc>>

\* WorkoutPlanViewSet.perform_create: status is a writable serializer field
CreateWorkoutPlan(u, st) ==
    /\ Len(workoutPlans) < MaxWorkoutPlans
    /\ workoutPlans' = Append(workoutPlans,
                              [user |-> u, status |-> st, completed_workouts |-> 0])
    /\ req' = [op |-> "create_workout_plan", user |-> u]
    /\ resp' = [status |-> 201]
    /\ UNCHANGED nonPlanVars

\* ModelViewSet update of a plan of the requesting user
UpdateWorkoutPlan(u, id, st) ==
    /\ req' = [op |-> "update_workout_plan", user |-> u, id |-> id]
    /\ IF id \in WorkoutPlansOf(u)
       THEN /\ workoutPlans' = [workoutPlans EXCEPT ![id].status = st]
            /\ resp' = [status |-> 200]
       ELSE /\ workoutPlans' = workoutPlans
            /\ resp' = [status |-> 404]
    /\ UNCHANGED nonPlanVars

\* WorkoutPlanViewSet.activate: get_object() answers 404 for a plan outside
\* the queryset; otherwise pause the active plans, then save this one active
ActivateWorkoutPlan(u, id) ==
    /\ req' = [op |-> "activate_workout_plan", user |-> u, id |-> id]
    /\ IF id \in WorkoutPlansOf(u)
       THEN /\ workoutPlans' = [PauseActive(workoutPlans, u) EXCEPT ![id].status = "active"]
            /\ resp' = [status |-> 200]
       ELSE /\ workoutPlans' = workoutPlans
            /\ resp' = [status |-> 404]
    /\ UNCHANGED nonPlanVars

(* ========================= fitness: workouts ========================== *)

WorkoutStatuses == {"scheduled", "in_progress", "completed"}

\* WorkoutViewSet.get_queryset: the workouts of the requesting user
WorkoutsOf(u) == {i \in DOMAIN workouts : workouts[i].user = u}

\* start accepts only this status
StartableBroken(st) == st \in {"scheduled", "completed"}
Startable(st) == st = "scheduled"

\* complete accepts only these statuses
Completable(st) == st \in {"in_progress", "scheduled"}

nonWorkoutVars == <<mealPlans, sessions, messages, contextItems,
                    goals, input, output, pc>>

\* WorkoutViewSet.perform_create with WorkoutCreateSerializer: status, the
\* plan link and the timestamps are not create fields
CreateWorkout(u) ==
    /\ Len(workouts) < MaxWorkouts
    /\ workouts' = Append(workouts,
            [user |-> u, status |-> "scheduled", started_at |-> NullTime,
             completed_at |-> NullTime, workout_plan |-> NullId])
    /\ req' = [op |-> "create_workout", user |-> u]
    /\ resp' = [status |-> 201]
    /\ UNCHANGED <<workoutPlans, now>>
    /\ UNCHANGED nonWorkoutVars

\* ModelViewSet update with WorkoutSerializer: status and workout_plan are
\* writable fields
UpdateWorkout(u, id, st, plan) ==
    /\ req' = [op |-> "update_workout", user |-> u, id |-> id]
    /\ IF id \in WorkoutsOf(u)
       THEN /\ workouts' = [workouts EXCEPT ![id].status = st, ![id].workout_plan = plan]
            /\ resp' = [status |-> 200]
       ELSE /\ workouts' = workouts
            /\ resp' = [status |-> 404]
    /\ UNCHANGED <<workoutPlans, now>>
    /\ UNCHANGED nonWorkoutVars

\* WorkoutViewSet.start
StartWorkout(u, id) ==
    /\ req' = [op |-> "start_workout", user |-> u, id |-> id]
    /\ IF id \notin WorkoutsOf(u)
       THEN /\ workouts' = workouts
            /\ resp' = [status |-> 404]
       ELSE IF ~Startable(workouts[id].status)
       THEN /\ workouts' = workouts
            /\ resp' = [status |-> 400]
       ELSE /\ workouts' = [workouts EXCEPT ![id].status = "in_progress",
                                            ![id].started_at = now]
            /\ resp' = [status |-> 200]
    /\ UNCHANGED <<workoutPlans, now>>
    /\ UNCHANGED nonWorkoutVars

\* a duration_minutes that timedelta(minutes=...) rejects (not a number)
BadDuration == -1

\* WorkoutViewSet.complete; duration is request.data['duration_minutes'],
\* used to back-date started_at when the workout was never started; the
\* TypeError of timedelta comes before workout.save()
CompleteWorkout(u, id, duration) ==
    /\ req' = [op |-> "complete_workout", user |-> u, id |-> id]
    /\ IF id \notin WorkoutsOf(u)
       THEN /\ workouts' = workouts
            /\ workoutPlans' = workoutPlans
            /\ resp' = [status |-> 404]
       ELSE IF ~Completable(workouts[id].status)
       THEN /\ workouts' = workouts
            /\ workoutPlans' = workoutPlans
            /\ resp' = [status |-> 400]
       ELSE IF workouts[id].started_at = NullTime /\ duration = BadDuration
       THEN /\ workouts' = workouts
            /\ workoutPlans' = workoutPlans
            /\ resp' = [status |-> 500]
       ELSE LET w == workouts[id] IN
            /\ workouts' = [workouts EXCEPT
                    ![id].status = "completed",
                    ![id].completed_at = now,
                    ![id].started_at = IF w.started_at = NullTime
                                       THEN now - duration ELSE w.started_at]
            /\ workoutPlans' =
                    IF w.workout_plan = NullId THEN workoutPlans
                    ELSE [workoutPlans EXCEPT ![w.workout_plan].completed_workouts = @ + 1]
            /\ resp' = [status |-> 200]
    /\ UNCHANGED now
    /\ UNCHANGED nonWorkoutVars

\* one workout plan exists for workouts to be linked to; the clock reads an
\* instant later than any back-dated start
InitWorkout ==
    /\ mealPlans = <<>>
    /\ workoutPlans = <<[user |-> "u1", status |-> "active", completed_workouts |-> 0]>>
    /\ workouts = <<>>
    /\ sessions = <<>>
    /\ messages = <<>>
    /\ contextItems = <<>>
    /\ goals = <<>>
    /\ now = 2
    /\ input = None
    /\ output = None
    /\ pc = "idle"
    /\ req = NoReq
    /\ resp = NoResp

NextWorkout ==
    \/ \E u \in Users : CreateWorkout(u)
    \/ \E u \in Users, id \in 1..MaxWorkouts, st \in WorkoutStatuses, plan \in {NullId, 1} :
            UpdateWorkout(u, id, st, plan)
    \/ \E u \in Users, id \in 1..MaxWorkouts : StartWorkout(u, id)
    \/ \E u \in Users, id \in 1..MaxWorkouts, d \in {BadDuration, 1} :
            /\ workoutPlans[1].completed_workouts < MaxCompleted
            /\ CompleteWorkout(u, id, d)

SpecWorkout == InitWorkout /\ [][NextWorkout]_vars

\* C3: start succeeds only on a scheduled workout, complete only on an
\* in_progress or scheduled one; from any other status the call is rejected
\* with HTTP 400 and the workout is left unchanged.
C3_StatusGuards ==
    [][/\ (req'.op = "start_workout" /\ req'.id \in WorkoutsOf(req'.user)) =>
            /\ resp'.status = 200 => workouts[req'.id].status = "scheduled"
            /\ workouts[req'.id].status # "scheduled" =>
                    /\ resp'.status = 400
                    /\ workouts' = workouts /\ workoutPlans' = workoutPlans
       /\ (req'.op = "complete_workout" /\ req'.id \in WorkoutsOf(req'.user)) =>
            /\ resp'.status = 200 =>
                    workouts[req'.id].status \in {"in_progress", "scheduled"}
            /\ workouts[req'.id].status \notin {"in_progress", "scheduled"} =>
                    /\ resp'.status = 400
                    /\ workouts' = workouts /\ workoutPlans' = workoutPlans
      ]_vars

\* a completed workout was asked to start, or to complete again, and refused
C3_Witness ==
    /\ req.op \in {"start_workout", "complete_workout"}
    /\ resp.status = 400
    /\ workouts[req.id].status = "completed"

(* =============================== chat ================================= *)

\* importance scores are kept in tenths: 0.7 is 7
HighImportance == 7
\* timedelta(days=30) of a conversation memory, in days
MemoryTTL == 30
\* the 24 hours of _update_session_satisfaction, in days
RecentRatingDays == 1

\* the user messages of the model, as lower-case word sequences
ChatContents == {<<"hello">>, <<"my", "goal", "i", "love", "pizza">>}

\* the one key and the scalar values of context_updates in the model
CtxKey == "k"
CtxValues == {"a"}
\* the rating given in the model (MessageFeedbackSerializer allows 1..5)
Ratings == {4}
Scalar(v) == [is_list |-> FALSE, items |-> <<v>>]
EmptyDict == [x \in {} |-> Scalar("a")]
ContextUpdates == {EmptyDict} \cup {[x \in {CtxKey} |-> Scalar(v)] : v \in CtxValues}

\* ChatSession.objects.get(id=sid, user=u) finds a row
SessionFoundBroken(u, sid) == sid \in DOMAIN sessions
SessionFound(u, sid) == sid \in DOMAIN sessions /\ sessions[sid].user = u

\* Message.objects.get(id=mid, session__user=u, role='assistant') finds a row
FeedbackMessageFound(u, mid) ==
    /\ mid \in DOMAIN messages
    /\ sessions[messages[mid].session].user = u
    /\ messages[mid].role = "assistant"

\* ChatContext.is_expired at time t
is_expired(item, t) ==
    IF item.expires_at = NullTime THEN FALSE ELSE t > item.expires_at

\* get_relevant_context's queryset:
\* filter(importance_score__gte=0.7).exclude(expires_at__lt=now); a negated
\* condition on a nullable column keeps the rows where it is NULL
RelevantContext(items, sid, t) ==
    {i \in DOMAIN items :
        /\ items[i].session = sid
        /\ items[i].importance >= HighImportance
        /\ ~(items[i].expires_at # NullTime /\ items[i].expires_at < t)}

\* ChatSessionViewSet.context's queryset: filter(expires_at__gte=now); a
\* comparison with NULL is not true, so rows without expiry are filtered out
SessionContextItems(items, sid, t) ==
    {i \in DOMAIN items :
        /\ items[i].session = sid
        /\ items[i].expires_at # NullTime
        /\ items[i].expires_at >= t}

\* ChatContext.mark_referenced on every item of S
MarkReferenced(items, S, t) ==
    [i \in DOMAIN items |->
        IF i \in S
        THEN [items[i] EXCEPT !.reference_count = @ + 1, !.last_referenced = t]
        ELSE items[i]]

NewContext(sid, type, key, val, imp, exp) ==
    [session |-> sid, context_type |-> type, key |-> key, value |-> val,
     importance |-> imp, expires_at |-> exp,
     reference_count |-> 0, last_referenced |-> NullTime]

NewMessage(sid, role, type, content, t) ==
    [session |-> sid, role |-> role, message_type |-> type,
     content |-> content, user_rating |-> 0, created_at |-> t]

\* 'sub' in content, for the one-word substrings the services look for
Contains(word, sub) ==
    \/ word = sub
    \/ <<word, sub>> \in {<<"loved", "love">>, <<"dislike", "like">>,
                          <<"likes", "like">>, <<"goals", "goal">>}
HasSub(content, sub) == \E i \in DOMAIN content : Contains(content[i], sub)

\* 'a b' in content, for the two-word substrings the services look for
HasPhrase(content, a, b) ==
    \E i \in DOMAIN content : i + 1 <= Len(content) /\ content[i] = a /\ content[i + 1] = b

\* the words that follow an occurrence of one of the verbs, in message order
WordsAfter(content, verbs) ==
    LET F[i \in 0..Len(content)] ==
            IF i = 0 THEN <<>>
            ELSE IF content[i] \in verbs /\ i + 1 <= Len(content)
                 THEN Append(F[i - 1], content[i + 1])
                 ELSE F[i - 1]
    IN F[Len(content)]

\* _extract_preferences_from_message: the preferences dict built from a message
ExtractedPreferences(content) ==
    LET diet == IF HasSub(content, "vegetarian") THEN {<<"diet_type", <<"vegetarian">> >>}
                ELSE IF HasSub(content, "vegan") THEN {<<"diet_type", <<"vegan">> >>}
                ELSE IF HasSub(content, "keto") THEN {<<"diet_type", <<"ketogenic">> >>}
                ELSE {}
        time == IF HasPhrase(content, "morning", "workout") \/ HasPhrase(content, "morning", "exercise")
                THEN {<<"preferred_workout_time", <<"morning">> >>}
                ELSE IF HasPhrase(content, "evening", "workout") \/ HasPhrase(content, "evening", "exercise")
                THEN {<<"preferred_workout_time", <<"evening">> >>}
                ELSE {}
        likes == IF HasSub(content, "love") \/ HasSub(content, "like")
                 THEN WordsAfter(content, {"love", "like", "enjoy"}) ELSE <<>>
        dislikes == IF HasSub(content, "hate") \/ HasSub(content, "dislike")
                    THEN WordsAfter(content, {"hate", "dislike", "avoid"}) ELSE <<>>
        pairs == diet \cup time
                 \cup (IF likes # <<>> THEN {<<"food_likes", likes>>} ELSE {})
                 \cup (IF dislikes # <<>> THEN {<<"food_dislikes", dislikes>>} ELSE {})
    IN [k \in {p[1] : p \in pairs} |-> (CHOOSE p \in pairs : p[1] = k)[2]]

\* dict.update
DictUpdate(d, e) ==
    [k \in DOMAIN d \cup DOMAIN e |-> IF k \in DOMAIN e THEN e[k] ELSE d[k]]

\* _store_conversation_memory's trigger words
MentionsGoal(content) ==
    \/ HasSub(content, "goal")
    \/ HasPhrase(content, "want", "to")
    \/ HasPhrase(content, "trying", "to")
    \/ HasPhrase(content, "plan", "to")

\* the context item of a session with the given type and key, or 0
FindContext(items, sid, type, key) ==
    IF \E i \in DOMAIN items :
            items[i].session = sid /\ items[i].context_type = type /\ items[i].key = key
    THEN CHOOSE i \in DOMAIN items :
            items[i].session = sid /\ items[i].context_type = type /\ items[i].key = key
    ELSE 0

\* _extract_preferences_from_message: the context items after the
\* preferences of a message are stored (get_or_create, then a dict update of
\* the existing value)
_extract_preferences_from_message(items, sid, content) ==
    LET prefs == ExtractedPreferences(content)
        found == FindContext(items, sid, "nutrition_preferences", <<"extracted_preferences", 0>>)
    IN IF DOMAIN prefs = {} THEN items
       ELSE IF found = 0
       THEN Append(items, NewContext(sid, "nutrition_preferences",
                                     <<"extracted_preferences", 0>>, prefs, 6, NullTime))
       ELSE [items EXCEPT ![found].value = DictUpdate(@, prefs)]

\* update_context_from_message: _extract_preferences_from_message, then
\* _store_conversation_memory; msgId is the id of the user message
UpdateContextFromMessage(items, sid, content, msgId, t) ==
    LET afterPrefs == _extract_preferences_from_message(items, sid, content)
    IN IF MentionsGoal(content)
       THEN Append(afterPrefs, NewContext(sid, "conversation_memory",
                        <<"goal_mentioned", msgId>>,
                        [k \in {"context"} |-> <<"goal_setting">>], 8, t + MemoryTTL))
       ELSE afterPrefs

\* AIClient.chat_response is a generator function: calling it returns a
\* generator object, which has no .get
ChatResponseIsDict == FALSE

\* generate_ai_response: build the conversation context (which marks the
\* relevant context items referenced), then store the assistant's message;
\* any exception ends in an assistant message of type 'error'
AssistantReply(sid, userMsgContent, t) ==
    IF ChatResponseIsDict
    THEN NewMessage(sid, "assistant", "text", <<"reply">>, t)
    ELSE NewMessage(sid, "assistant", "error", <<"apology">>, t)

\* AIClient has no stream_chat_response method
AIClientMethods == {"generate_meal_plan", "generate_workout_plan", "chat_response",
                    "analyze_nutrition"}

nonChatVars == <<mealPlans, workoutPlans, workouts, goals, input, output, pc>>

\* start_chat -> ChatService.start_chat_session
StartChat(u, content, hasProfile, hasGoals) ==
    LET sid == Len(sessions) + 1
        profileCtx ==
            IF ~hasProfile THEN <<>>
            ELSE <<NewContext(sid, "user_profile", <<"basic_info", 0>>,
                              [k \in {"profile"} |-> <<"basic">>], 9, NullTime)>>
                 \o (IF hasGoals
                     THEN <<NewContext(sid, "user_profile", <<"health_goals", 0>>,
                                       [k \in {"profile"} |-> <<"goals">>], 8, NullTime)>>
                     ELSE <<>>)
        \* no meal plan, workout plan, nutrition log or learned preference
        \* exists in the chat model: the other initial context items are absent
        created == contextItems \o profileCtx
        referenced == MarkReferenced(created, RelevantContext(created, sid, now), now)
    IN
    /\ Len(sessions) < MaxSessions
    /\ Len(messages) + 2 <= MaxMessages
    /\ Len(contextItems) + 2 <= MaxContext
    /\ sessions' = Append(sessions,
            [user |-> u, status |-> "active", message_count |-> 0,
             last_activity |-> now, context_data |-> EmptyDict,
             satisfaction_rating |-> 0, title |-> content])
    /\ messages' = messages \o <<NewMessage(sid, "user", "text", content, now),
                                 AssistantReply(sid, content, now)>>
    /\ contextItems' = referenced
    /\ req' = [op |-> "start_chat", user |-> u]
    /\ resp' = [status |-> 201, success |-> TRUE, error |-> None]
    /\ UNCHANGED now
    /\ UNCHANGED nonChatVars

\* send_message -> ChatService.send_message
SendMessage(u, sid, content) ==
    /\ req' = [op |-> "send_message", user |-> u, id |-> sid]
    /\ IF ~SessionFound(u, sid)
       THEN /\ resp' = [status |-> 400, success |-> FALSE, error |-> "Chat session not found"]
            /\ UNCHANGED <<sessions, messages, contextItems>>
       ELSE LET userMsg == Len(messages) + 1
                referenced == MarkReferenced(contextItems,
                                    RelevantContext(contextItems, sid, now), now)
            IN
            /\ Len(messages) + 2 <= MaxMessages
            /\ Len(contextItems) + 2 <= MaxContext
            /\ messages' = messages \o <<NewMessage(sid, "user", "text", content, now),
                                         AssistantReply(sid, content, now)>>
            /\ sessions' = [sessions EXCEPT ![sid].last_activity = now,
                                            ![sid].message_count = @ + 1]
            /\ contextItems' = UpdateContextFromMessage(referenced, sid, content, userMsg, now)
            /\ resp' = [status |-> 201, success |-> TRUE, error |-> None]
    /\ UNCHANGED now
    /\ UNCHANGED nonChatVars

\* stream_message -> ChatService.stream_ai_response: the lookup, the user
\* message, the conversation context and the placeholder assistant message
\* come before the call of ai_client.stream_chat_response; every exception,
\* DoesNotExist included, is reported as an error chunk
StreamAIResponse(u, sid, content) ==
    /\ req' = [op |-> "stream_ai_response", user |-> u, id |-> sid]
    /\ IF ~SessionFound(u, sid)
       THEN /\ resp' = [status |-> 200, success |-> FALSE,
                        error |-> "ChatSession matching query does not exist."]
            /\ UNCHANGED <<sessions, messages, contextItems>>
       ELSE /\ Len(messages) + 2 <= MaxMessages
            /\ messages' = messages \o <<NewMessage(sid, "user", "text", content, now),
                                         NewMessage(sid, "assistant", "text", <<>>, now)>>
            /\ contextItems' = MarkReferenced(contextItems,
                                    RelevantContext(contextItems, sid, now), now)
            /\ IF "stream_chat_response" \in AIClientMethods
               THEN /\ sessions' = [sessions EXCEPT ![sid].last_activity = now,
                                                    ![sid].message_count = @ + 1]
                    /\ resp' = [status |-> 200, success |-> TRUE, error |-> None]
               ELSE /\ sessions' = sessions
                    /\ resp' = [status |-> 200, success |-> FALSE,
                                error |-> "'AIClient' object has no attribute 'stream_chat_response'"]
    /\ UNCHANGED now
    /\ UNCHANGED nonChatVars

\* the three merge strategies of update_context on one key
MergeContext(data, updates, strategy) ==
    IF strategy = "replace" THEN updates
    ELSE IF strategy = "merge" THEN DictUpdate(data, updates)
    ELSE [k \in DOMAIN data \cup DOMAIN updates |->
            IF k \notin DOMAIN updates THEN data[k]
            ELSE IF k \notin DOMAIN data THEN updates[k]
            \* a list is extended, a scalar becomes the list [old, new]
            ELSE [is_list |-> TRUE, items |-> data[k].items \o updates[k].items]]

\* the longest list a context value holds
MaxItems(data) ==
    IF DOMAIN data = {} THEN 0 ELSE Len(data[CtxKey].items)

\* update_context
UpdateContext(u, sid, strategy, updates) ==
    /\ req' = [op |-> "update_context", user |-> u, id |-> sid]
    /\ IF ~SessionFound(u, sid)
       THEN /\ resp' = [status |-> 404, success |-> FALSE, error |-> "Chat session not found"]
            /\ sessions' = sessions
       ELSE /\ MaxItems(MergeContext(sessions[sid].context_data, updates, strategy)) <= MaxListLen
            /\ sessions' = [sessions EXCEPT
                    ![sid].context_data = MergeContext(@, updates, strategy)]
            /\ resp' = [status |-> 200, success |-> TRUE, error |-> None]
    /\ UNCHANGED <<messages, contextItems, now>>
    /\ UNCHANGED nonChatVars

\* the ratings _update_session_satisfaction averages: the rated assistant
\* messages of the session created within the last 24 hours
RecentRatings(msgs, sid, t) ==
    {i \in DOMAIN msgs :
        /\ msgs[i].session = sid
        /\ msgs[i].role = "assistant"
        /\ msgs[i].user_rating # 0
        /\ msgs[i].created_at >= t - RecentRatingDays}

RECURSIVE SumRatings(_, _)
SumRatings(msgs, S) ==
    IF S = {} THEN 0
    ELSE LET i == CHOOSE x \in S : TRUE
         IN msgs[i].user_rating + SumRatings(msgs, S \ {i})

\* ChatService.add_message_feedback; the satisfaction rating is kept in tenths
AddMessageFeedback(u, mid, rating) ==
    /\ req' = [op |-> "add_message_feedback", user |-> u, id |-> mid]
    /\ IF ~FeedbackMessageFound(u, mid)
       THEN /\ resp' = [status |-> 400, success |-> FALSE, error |-> "Message not found"]
            /\ UNCHANGED <<sessions, messages>>
       ELSE LET rated == [messages EXCEPT ![mid].user_rating = rating]
                sid == messages[mid].session
                recent == RecentRatings(rated, sid, now)
            IN
            /\ messages' = rated
            /\ sessions' =
                    IF recent = {} THEN sessions
                    ELSE [sessions EXCEPT ![sid].satisfaction_rating =
                            (10 * SumRatings(rated, recent)) \div Cardinality(recent)]
            /\ resp' = [status |-> 200, success |-> TRUE, error |-> None]
    /\ UNCHANGED <<contextItems, now>>
    /\ UNCHANGED nonChatVars

\* ChatSessionViewSet.context: the ids of the context items it serialises
SessionContext(u, sid) ==
    /\ req' = [op |-> "session_context", user |-> u, id |-> sid]
    /\ IF ~SessionFound(u, sid)
       THEN resp' = [status |-> 404, items |-> {}]
       ELSE resp' = [status |-> 200, items |-> SessionContextItems(contextItems, sid, now)]
    /\ UNCHANGED <<sessions, messages, contextItems, now>>
    /\ UNCHANGED nonChatVars

\* time passes between requests
Tick ==
    /\ now + TickDays <= MaxTime
    /\ now' = now + TickDays
    /\ req' = [op |-> "tick"]
    /\ resp' = NoResp
    /\ UNCHANGED <<sessions, messages, contextItems>>
    /\ UNCHANGED nonChatVars

\* ChatSessionViewSet.perform_create: a session without messages
CreateSession(u) ==
    /\ Len(sessions) < MaxSessions
    /\ sessions' = Append(sessions,
            [user |-> u, status |-> "active", message_count |-> 0,
             last_activity |-> now, context_data |-> EmptyDict,
             satisfaction_rating |-> 0, title |-> <<>>])
    /\ req' = [op |-> "create_session", user |-> u]
    /\ resp' = [status |-> 201]
    /\ UNCHANGED <<messages, contextItems, now>>
    /\ UNCHANGED nonChatVars

NextChat ==
    \/ \E u \in Users : CreateSession(u)
    \/ \E u \in Users, c \in ChatContents, p, g \in BOOLEAN : StartChat(u, c, p, g)
    \/ \E u \in Users, sid \in 1..MaxSessions, c \in ChatContents : SendMessage(u, sid, c)
    \/ \E u \in Users, sid \in 1..MaxSessions, c \in ChatContents : StreamAIResponse(u, sid, c)
    \/ \E u \in Users, sid \in 1..MaxSessions, st \in {"replace", "merge", "append"},
          up \in ContextUpdates : UpdateContext(u, sid, st, up)
    \/ \E u \in Users, mid \in 1..MaxMessages, r \in Ratings : AddMessageFeedback(u, mid, r)

SpecChat == InitAll /\ [][NextChat]_vars

NextContext ==
    \/ \E u \in Users : CreateSession(u)
    \/ \E u \in Users, c \in ChatContents, p, g \in BOOLEAN : StartChat(u, c, p, g)
    \/ \E u \in Users, sid \in 1..MaxSessions, c \in ChatContents : SendMessage(u, sid, c)
    \/ \E u \in Users, sid \in 1..MaxSessions : SessionContext(u, sid)
    \/ Tick

SpecContext == InitAll /\ [][NextContext]_vars

\* C4: send_message, stream_ai_response, update_context and
\* add_message_feedback, given a session or message id that belongs to another
\* user, report that it was not found and change no session, message or
\* context data.
NotFoundErrors == {"Chat session not found", "Message not found",
                   "ChatSession matching query does not exist."}

ForeignSession(u, sid) == sid \in DOMAIN sessions /\ sessions[sid].user # u
ForeignMessage(u, mid) ==
    mid \in DOMAIN messages /\ sessions[messages[mid].session].user # u

C4_OwnerOnly ==
    [][/\ (/\ req'.op \in {"send_message", "stream_ai_response", "update_context"}
           /\ ForeignSession(req'.user, req'.id))
          => /\ resp'.error \in NotFoundErrors
             /\ UNCHANGED <<sessions, messages, contextItems>>
       /\ (/\ req'.op = "add_message_feedback"
           /\ ForeignMessage(req'.user, req'.id))
          => /\ resp'.error \in NotFoundErrors
             /\ UNCHANGED <<sessions, messages, contextItems>>
      ]_vars

\* feedback on an assistant message of another user's session was refused
C4_Witness ==
    /\ req.op = "add_message_feedback"
    /\ ForeignMessage(req.user, req.id)
    /\ messages[req.id].role = "assistant"
    /\ resp.error = "Message not found"

Structural == {"{", "}", "[", "]", "J", "E", "t"}
MealAlphabet == Structural \cup {"n", "daily_calories", "days"}

MaxTextLen == 4
Texts(alphabet, n) == UNION {[1..k -> alphabet] : k \in 0..n}

(* Python values: a dict with its keys, a list with its string elements, a  *)
(* str, or a value that is no container; exceptions are values too.         *)
Dict(keys) == [kind |-> "dict", items |-> keys]
List(elems) == [kind |-> "list", items |-> elems]
Str(text) == [kind |-> "str", items |-> {text}]
Scalar0 == [kind |-> "scalar", items |-> {}]
Raise(name) == [kind |-> name, items |-> {}]
NoOutput == [kind |-> "none", items |-> {}]
Exceptions == {"JSONDecodeError", "ValueError: No valid JSON found in response",
               "TypeError", "AttributeError", "DoesNotExist",
               "ValueError: Invalid AI response format",
               "ValueError: Missing required field"}
IsRaise(v) == v.kind \in Exceptions

ParseFail == [ok |-> FALSE, val |-> Scalar0, next |-> 0]

RECURSIVE ParseValue(_, _)
RECURSIVE ParseMembers(_, _, _)
RECURSIVE ParseElements(_, _, _)

\* the JSON value that starts at token i, and the index after it
ParseValue(s, i) ==
    IF i > Len(s) THEN ParseFail
    ELSE IF s[i] = "n" THEN [ok |-> TRUE, val |-> Scalar0, next |-> i + 1]
    ELSE IF s[i] = "{" THEN ParseMembers(s, i + 1, {})
    ELSE IF s[i] = "[" THEN ParseElements(s, i + 1, {})
    ELSE IF s[i] \in Structural THEN ParseFail
    ELSE [ok |-> TRUE, val |-> Str(s[i]), next |-> i + 1]

ParseMembers(s, i, keys) ==
    IF i > Len(s) THEN ParseFail
    ELSE IF s[i] = "}" THEN [ok |-> TRUE, val |-> Dict(keys), next |-> i + 1]
    ELSE IF s[i] \in Structural \cup {"n"} THEN ParseFail
    ELSE ParseMembers(s, i + 1, keys \cup {s[i]})

ParseElements(s, i, elems) ==
    IF i > Len(s) THEN ParseFail
    ELSE IF s[i] = "]" THEN [ok |-> TRUE, val |-> List(elems), next |-> i + 1]
    ELSE LET v == ParseValue(s, i) IN
         IF ~v.ok THEN ParseFail
         ELSE ParseElements(s, v.next,
                    elems \cup (IF v.val.kind = "str" THEN v.val.items ELSE {}))

\* json.loads of a text: the whole text must be one JSON value
json_loads(s) ==
    LET r == ParseValue(s, 1) IN
    IF r.ok /\ r.next = Len(s) + 1 THEN r.val ELSE Raise("JSONDecodeError")

NoMatch == [found |-> FALSE, text |-> <<>>]

\* re.search(r'```json\s*(.*?)\s*```', response, re.DOTALL): group 1 lies
\* between the first ```json and the next ```, which may open another fence
FencedMatch(s) ==
    LET opens == {i \in DOMAIN s : s[i] = "J"} IN
    IF opens = {} THEN NoMatch
    ELSE LET p == CHOOSE i \in opens : \A j \in opens : i <= j
             closes == {i \in DOMAIN s : i > p /\ s[i] \in {"J", "E"}}
         IN IF closes = {} THEN NoMatch
            ELSE LET q == CHOOSE i \in closes : \A j \in closes : i <= j
                 IN [found |-> TRUE, text |-> SubSeq(s, p + 1, q - 1)]

\* re.search(r'\{.*\}', response, re.DOTALL): from the first { to the last }
BraceMatch(s) ==
    LET opens == {i \in DOMAIN s : s[i] = "{"} IN
    IF opens = {} THEN NoMatch
    ELSE LET a == CHOOSE i \in opens : \A j \in opens : i <= j
             closes == {i \in DOMAIN s : i > a /\ s[i] = "}"}
         IN IF closes = {} THEN NoMatch
            ELSE LET b == CHOOSE i \in closes : \A j \in closes : i >= j
                 IN [found |-> TRUE, text |-> SubSeq(s, a, b)]

\* AIClient._parse_json_response; the json.loads of a matched group is not
\* guarded, so its JSONDecodeError leaves the function
_parse_json_response(s) ==
    LET whole == json_loads(s)
        fenced == FencedMatch(s)
        brace == BraceMatch(s)
    IN IF ~IsRaise(whole) THEN whole
       ELSE IF fenced.found THEN json_loads(fenced.text)
       ELSE IF brace.found THEN json_loads(brace.text)
       ELSE Raise("ValueError: No valid JSON found in response")

\* key in value, as Python evaluates it; TypeError for a value that is no
\* container.  On the strings of the model's alphabets 'in' on a str
\* (substring) coincides with equality.
KeyIn(key, v) ==
    IF v.kind \in {"dict", "list", "str"} THEN key \in v.items ELSE FALSE
KeyInRaises(v) == v.kind \notin {"dict", "list", "str"}

\* AIClient._validate_meal_plan
_validate_meal_plan(v) ==
    IF KeyInRaises(v) THEN Raise("TypeError")
    ELSE IF \A key \in {"daily_calories", "days"} : KeyIn(key, v)
         THEN Dict({"valid"}) ELSE Dict({})

\* AIClient._get_fallback_meal_plan
_get_fallback_meal_plan == Dict({"daily_calories", "days"})

\* AIClient.generate_meal_plan on the provider's outcome: an error of
\* _call_ai_api, or the text it returned
generate_meal_plan(outcome) ==
    IF outcome.error THEN _get_fallback_meal_plan
    ELSE LET meal_plan == _parse_json_response(outcome.text) IN
         IF IsRaise(meal_plan) THEN _get_fallback_meal_plan
         ELSE LET valid == _validate_meal_plan(meal_plan) IN
              IF IsRaise(valid) THEN _get_fallback_meal_plan
              ELSE IF valid = Dict({"valid"}) THEN meal_plan
              ELSE _get_fallback_meal_plan

ProviderOutcomes ==
    {[error |-> TRUE, text |-> <<>>]}
    \cup {[error |-> FALSE, text |-> t] : t \in Texts(MealAlphabet, MaxTextLen)}

nonAIVars == <<mealPlans, workoutPlans, workouts, sessions, messages, contextItems,
               goals, now, req, resp>>

InitAI ==
    /\ mealPlans = <<>>
    /\ workoutPlans = <<>>
    /\ workouts = <<>>
    /\ sessions = <<>>
    /\ messages = <<>>
    /\ contextItems = <<>>
    /\ goals = <<>>
    /\ now = 0
    /\ input \in ProviderOutcomes
    /\ output = NoOutput
    /\ pc = "idle"
    /\ req = NoReq
    /\ resp = NoResp

GenerateMealPlan ==
    /\ pc = "idle"
    /\ pc' = "generate_meal_plan"
    /\ output' = generate_meal_plan(input)
    /\ UNCHANGED input
    /\ UNCHANGED nonAIVars

ParseJsonResponse ==
    /\ pc = "idle"
    /\ ~input.error
    /\ pc' = "_parse_json_response"
    /\ output' = _parse_json_response(input.text)
    /\ UNCHANGED input
    /\ UNCHANGED nonAIVars

NextAI == GenerateMealPlan \/ ParseJsonResponse

SpecAI == InitAI /\ [][NextAI]_vars

\* C6: generate_meal_plan never raises and always returns a structured meal
\* plan (a dictionary) with both daily_calories and days: the AI's plan when
\* it parses and validates, otherwise the fallback meal plan.
C6_AlwaysMealPlan ==
    pc = "generate_meal_plan" =>
        /\ ~IsRaise(output)
        /\ output.kind = "dict"
        /\ {"daily_calories", "days"} \subseteq output.items

\* C8: _parse_json_response returns the first of the whole response, the
\* fenced block and the brace span that parses as JSON, and raises
\* ValueError('No valid JSON found in response') only when none of them does.
Candidates(s) ==
    <<json_loads(s)>>
    \o (IF FencedMatch(s).found THEN <<json_loads(FencedMatch(s).text)>> ELSE <<>>)
    \o (IF BraceMatch(s).found THEN <<json_loads(BraceMatch(s).text)>> ELSE <<>>)

C8_FirstThatParses ==
    pc = "_parse_json_response" =>
        LET c == Candidates(input.text)
            good == {i \in DOMAIN c : ~IsRaise(c[i])}
        IN /\ good # {} => output = c[CHOOSE i \in good : \A j \in good : i <= j]
           /\ output = Raise("ValueError: No valid JSON found in response") => good = {}

(* ================= fitness: workout plan generation =================== *)

\* the public methods of PromptTemplates
PromptTemplatesMethods == {"get_meal_plan_prompt", "get_workout_prompt",
                           "get_chat_prompt", "get_nutrition_analysis_prompt"}

\* AIClient._validate_workout_plan
_validate_workout_plan(v) ==
    IF KeyInRaises(v) THEN Raise("TypeError")
    ELSE IF \A key \in {"plan_name", "days"} : KeyIn(key, v)
         THEN Dict({"valid"}) ELSE Dict({})

\* AIClient._get_fallback_workout_plan
_get_fallback_workout_plan == Dict({"plan_name", "days"})

\* AIClient.generate_workout_plan: a Python value, never a text
generate_workout_plan(outcome) ==
    IF outcome.error THEN _get_fallback_workout_plan
    ELSE LET workout_plan == _parse_json_response(outcome.text) IN
         IF IsRaise(workout_plan) THEN _get_fallback_workout_plan
         ELSE LET valid == _validate_workout_plan(workout_plan) IN
              IF IsRaise(valid) THEN _get_fallback_workout_plan
              ELSE IF valid = Dict({"valid"}) THEN workout_plan
              ELSE _get_fallback_workout_plan

RequiredPlanFields == {"program_overview", "weekly_schedule", "exercises_database"}

\* WorkoutPlanningService._parse_ai_workout_plan on what the AI client
\* returned: json.loads accepts only str, bytes or bytearray; the content of
\* a str of the model is a word of prose
_parse_ai_workout_plan(ai_response) ==
    IF ai_response.kind # "str" THEN Raise("TypeError")
    ELSE LET plan_data == json_loads(<<"t">>) IN
         IF IsRaise(plan_data) THEN Raise("ValueError: Invalid AI response format")
         ELSE IF KeyInRaises(plan_data) THEN Raise("TypeError")
         ELSE IF \E f \in RequiredPlanFields : ~KeyIn(f, plan_data)
              THEN Raise("ValueError: Missing required field")
         ELSE plan_data

\* _calculate_plan_confidence in tenths, for a plan whose exercises_database
\* is empty: only the structure score counts
PlanConfidence(plan_data) ==
    (IF KeyIn("program_overview", plan_data) THEN 2 ELSE 0)
    + (IF KeyIn("weekly_schedule", plan_data) THEN 3 ELSE 0)
    + (IF KeyIn("progression_plan", plan_data) THEN 2 ELSE 0)

\* what generate_personalized_workout_plan computes before it saves: the
\* parsed plan, or the exception that ends the try block
PlannedWorkoutPlan(hasProfile, outcome) ==
    IF ~hasProfile THEN Raise("DoesNotExist")
    ELSE IF "get_workout_plan_prompt" \notin PromptTemplatesMethods
    THEN Raise("AttributeError")
    ELSE _parse_ai_workout_plan(generate_workout_plan(outcome))

\* the AI responses of the workout plan model
WorkoutTexts ==
    {<<"{", "program_overview", "weekly_schedule", "exercises_database", "}">>,
     <<"{", "plan_name", "days", "program_overview", "weekly_schedule",
       "exercises_database", "}">>,
     <<"J", "{", "program_overview", "weekly_schedule", "exercises_database", "}", "E">>,
     <<"{", "plan_name", "days", "}">>,
     <<"[", "plan_name", "days", "]">>,
     <<"plan_name">>,
     <<"t">>}
WorkoutOutcomes ==
    {[error |-> TRUE, text |-> <<>>]}
    \cup {[error |-> FALSE, text |-> t] : t \in WorkoutTexts}

\* WorkoutPlanViewSet.generate -> generate_personalized_workout_plan;
\* weeks is duration_weeks and days the number of training days of the
\* weekly schedule, one workout being created per week and training day
GenerateWorkoutPlan(u, hasProfile, outcome, weeks, days) ==
    LET plan == PlannedWorkoutPlan(hasProfile, outcome)
        id == Len(workoutPlans) + 1
    IN
    /\ req' = [op |-> "generate_workout_plan", user |-> u,
               has_profile |-> hasProfile, outcome |-> outcome]
    /\ IF IsRaise(plan)
       THEN /\ resp' = [status |-> 400, success |-> FALSE, error |-> plan.kind,
                        plan_id |-> NullId, ai_confidence |-> 0]
            /\ UNCHANGED <<workoutPlans, workouts>>
       ELSE /\ Len(workoutPlans) < MaxWorkoutPlans
            /\ workoutPlans' = Append(workoutPlans,
                    [user |-> u, status |-> "draft", completed_workouts |-> 0])
            /\ workouts' = workouts \o
                    [i \in 1..(weeks * days) |->
                        [user |-> u, status |-> "scheduled", started_at |-> NullTime,
                         completed_at |-> NullTime, workout_plan |-> id]]
            /\ resp' = [status |-> 201, success |-> TRUE, error |-> None,
                        plan_id |-> id, ai_confidence |-> PlanConfidence(plan)]
    /\ UNCHANGED <<mealPlans, sessions, messages, contextItems, goals, now, input, output, pc>>

NextWorkoutPlan ==
    \/ \E u \in Users, st \in WorkoutPlanStatuses : CreateWorkoutPlan(u, st)
    \/ \E u \in Users, id \in 1..MaxWorkoutPlans, st \in WorkoutPlanStatuses :
            UpdateWorkoutPlan(u, id, st)
    \/ \E u \in Users, id \in 1..MaxWorkoutPlans : ActivateWorkoutPlan(u, id)
    \/ \E u \in Users, p \in BOOLEAN, o \in WorkoutOutcomes :
            GenerateWorkoutPlan(u, p, o, 1, 1)

SpecWorkoutPlan == InitAll /\ [][NextWorkoutPlan]_vars

\* C2: after WorkoutPlanViewSet.activate completes for plan P of user U, P is
\* active, every other plan of U that was active is now paused, and U has
\* exactly one active workout plan.
C2_ActivateExclusive ==
    [][(req'.op = "activate_workout_plan" /\ resp'.status = 200) =>
          /\ workoutPlans'[req'.id].status = "active"
          /\ \A i \in ActivePlansOf(workoutPlans, req'.user) :
                i # req'.id => workoutPlans'[i].status = "paused"
          /\ ActivePlansOf(workoutPlans', req'.user) = {req'.id}]_vars

\* an activation has paused another plan of the same user
C2_Witness ==
    /\ req.op = "activate_workout_plan" /\ resp.status = 200
    /\ workoutPlans[req.id].status = "active"
    /\ \E i \in WorkoutPlansOf(req.user) : i # req.id /\ workoutPlans[i].status = "paused"

\* C7: when the AI produces a well-formed workout plan (program_overview,
\* weekly_schedule and exercises_database), generate_personalized_workout_plan
\* stores a new draft plan for the user and returns success with that plan's
\* id and a confidence.
WellFormedPlan(outcome) ==
    /\ ~outcome.error
    /\ LET v == _parse_json_response(outcome.text)
       IN v.kind = "dict" /\ RequiredPlanFields \subseteq v.items

C7_GeneratesDraftPlan ==
    (/\ req.op = "generate_workout_plan"
     /\ req.has_profile
     /\ WellFormedPlan(req.outcome)) =>
        /\ resp.success
        /\ resp.plan_id \in DOMAIN workoutPlans
        /\ workoutPlans[resp.plan_id].user = req.user
        /\ workoutPlans[resp.plan_id].status = "draft"
        /\ resp.ai_confidence > 0

(* ====================== nutrition: health score ======================= *)

FiberBonus(fiber) == IF fiber >= 25 THEN 15 ELSE IF fiber >= 15 THEN 10 ELSE 0
ProteinBonus(protein) == IF protein >= 50 THEN 10 ELSE IF protein >= 30 THEN 5 ELSE 0
VitaminCBonus(vitamin_c) == IF vitamin_c >= 90 THEN 10 ELSE 0
CalciumBonus(calcium) == IF calcium >= 1000 THEN 5 ELSE 0
SodiumPenaltyBroken(sodium) == IF sodium > 2300 THEN 60 ELSE IF sodium > 1500 THEN 10 ELSE 0
SodiumPenalty(sodium) == IF sodium > 2300 THEN 20 ELSE IF sodium > 1500 THEN 10 ELSE 0
SugarPenalty(sugars) == IF sugars > 50 THEN 15 ELSE IF sugars > 25 THEN 8 ELSE 0
FatPenalty(fat) == IF fat > 78 THEN 10 ELSE 0

Min(a, b) == IF a <= b THEN a ELSE b
Max(a, b) == IF a >= b THEN a ELSE b

\* NutritionAPI._calculate_health_score
_calculate_health_score(nutrition) ==
    LET score == 50
                 + FiberBonus(nutrition.fiber)
                 + ProteinBonus(nutrition.protein)
                 + VitaminCBonus(nutrition.vitamin_c)
                 + CalciumBonus(nutrition.calcium)
                 - SodiumPenalty(nutrition.sodium)
                 - SugarPenalty(nutrition.sugars)
                 - FatPenalty(nutrition.fat)
    IN Max(0, Min(100, score))

\* nutrition profiles on both sides of every threshold; a nutrient that is
\* absent from the profile reads as 0
NutritionProfiles ==
    [fiber : {0, 14, 15, 24, 25}, protein : {0, 29, 30, 49, 50},
     vitamin_c : {0, 89, 90}, calcium : {0, 999, 1000},
     sodium : {0, 1500, 1501, 2300, 2301}, sugars : {0, 25, 26, 50, 51},
     fat : {0, 78, 79}]

InitHealth ==
    /\ mealPlans = <<>>
    /\ workoutPlans = <<>>
    /\ workouts = <<>>
    /\ sessions = <<>>
    /\ messages = <<>>
    /\ contextItems = <<>>
    /\ goals = <<>>
    /\ now = 0
    /\ input \in NutritionProfiles
    /\ output = 0
    /\ pc = "idle"
    /\ req = NoReq
    /\ resp = NoResp

CalculateHealthScore ==
    /\ pc = "idle"
    /\ pc' = "_calculate_health_score"
    /\ output' = _calculate_health_score(input)
    /\ UNCHANGED input
    /\ UNCHANGED nonAIVars

NextHealth == CalculateHealthScore

SpecHealth == InitHealth /\ [][NextHealth]_vars

\* C9: _calculate_health_score returns a score between 1 and 100 inclusive
\* for every nutrition profile.
C9_ScoreInRange ==
    pc = "_calculate_health_score" => output >= 1 /\ output <= 100

\* every penalty and no bonus: the lowest score
C9_Witness ==
    /\ pc = "_calculate_health_score"
    /\ input.sodium > 2300 /\ input.sugars > 50 /\ input.fat > 78
    /\ input.fiber < 15 /\ input.protein < 30
    /\ output = 5

(* ========================= users: goal progress ======================= *)

\* NULL in a nullable float column (goal values are >= 0 in the model)
NullValue == -1000

\* the statuses a client writes in the model (of UserGoal.STATUS_CHOICES)
WrittenGoalStatuses == {"active", "paused"}

GoalsOf(u) == {i \in DOMAIN goals : goals[i].user = u}

\* goal.target_value and goal.current_value >= goal.target_value
GoalReachedBroken(target, current) ==
    target # NullValue /\ target # 0 /\ current > target
GoalReached(target, current) ==
    target # NullValue /\ target # 0 /\ current >= target

nonGoalVars == <<mealPlans, workoutPlans, workouts, sessions, messages, contextItems,
                 input, output, pc>>

\* UserGoalListCreateView with UserGoalSerializer: a target value is absent
\* or positive, status is a writable field
CreateGoal(u, target, st) ==
    /\ Len(goals) < MaxGoals
    /\ goals' = Append(goals,
            [user |-> u, target_value |-> target, current_value |-> NullValue,
             status |-> st, completed_at |-> NullTime])
    /\ req' = [op |-> "create_goal", user |-> u]
    /\ resp' = [status |-> 201]
    /\ UNCHANGED now
    /\ UNCHANGED nonGoalVars

\* UserGoalDetailView (PATCH of status) with UserGoalSerializer: status is
\* writable, completed_at is read-only
UpdateGoal(u, id, st) ==
    /\ req' = [op |-> "update_goal", user |-> u, id |-> id]
    /\ IF id \in GoalsOf(u)
       THEN /\ goals' = [goals EXCEPT ![id].status = st]
            /\ resp' = [status |-> 200]
       ELSE /\ goals' = goals
            /\ resp' = [status |-> 404]
    /\ UNCHANGED now
    /\ UNCHANGED nonGoalVars

\* update_goal_progress; value is request.data['current_value']: absent, a
\* number, or something float() rejects
UpdateGoalProgress(u, id, value) ==
    /\ req' = [op |-> "update_goal_progress", user |-> u, id |-> id, value |-> value]
    /\ IF id \notin GoalsOf(u)
       THEN /\ resp' = [status |-> 404, goal_status |-> None]
            /\ goals' = goals
       ELSE IF value.kind = "absent"
       THEN /\ resp' = [status |-> 400, goal_status |-> None]
            /\ goals' = goals
       ELSE IF value.kind = "invalid"
       THEN /\ resp' = [status |-> 500, goal_status |-> None]
            /\ goals' = goals
       ELSE LET reached == GoalReached(goals[id].target_value, value.number)
                st == IF reached THEN "completed" ELSE goals[id].status
            IN
            /\ goals' = [goals EXCEPT
                    ![id].current_value = value.number,
                    ![id].status = st,
                    ![id].completed_at = IF reached THEN now ELSE @]
            /\ resp' = [status |-> 200, goal_status |-> st]
    /\ UNCHANGED now
    /\ UNCHANGED nonGoalVars

ProgressValues ==
    {[kind |-> "absent", number |-> 0], [kind |-> "invalid", number |-> 0]}
    \cup {[kind |-> "number", number |-> n] : n \in 0..(MaxGoalValue + 1)}

NextGoal ==
    \/ \E u \in Users, t \in {NullValue} \cup 1..MaxGoalValue, st \in WrittenGoalStatuses :
            CreateGoal(u, t, st)
    \/ \E u \in Users, id \in 1..MaxGoals, st \in WrittenGoalStatuses : UpdateGoal(u, id, st)
    \/ \E u \in Users, id \in 1..MaxGoals, v \in ProgressValues : UpdateGoalProgress(u, id, v)

SpecGoal == InitAll /\ [][NextGoal]_vars

ModuleGlobals == {"requests", "logging", "Dict", "List", "Optional", "settings",
                  "cache", "json", "time", "logger"}

\* the formats a caller passes; format.lower() maps the upper-case spellings
ExportFormats == {"json", "JSON", "csv", "CSV", "pdf", "xml"}
Lower(format) ==
    IF format = "JSON" THEN "json" ELSE IF format = "CSV" THEN "csv" ELSE format

ExportUsers == {"7", "8", "9"}
Nutrients == {"calories", "protein", "fat"}
\* nutrition_data: the nutrients of its daily_totals (none when it is absent)
NutritionData == SUBSET Nutrients

ExportResult(success, format, data, ext, error) ==
    [success |-> success, format |-> format, data |-> data,
     extension |-> ext, error |-> error]

\* NutritionAPI.export_nutrition_report; the first statement of the try block
\* evaluates the global name datetime
export_nutrition_report(user_id, nutrition_data, format) ==
    IF "datetime" \notin ModuleGlobals
    THEN ExportResult(FALSE, None, {}, None, "Export generation failed")
    ELSE IF Lower(format) = "json"
    THEN ExportResult(TRUE, "json", {"report_metadata", "nutrition_analysis", "summary"},
                      "json", None)
    ELSE IF Lower(format) = "csv"
    THEN ExportResult(TRUE, "csv", nutrition_data, "csv", None)
    ELSE ExportResult(FALSE, None, {}, None, "Unsupported format")

InitExport ==
    /\ mealPlans = <<>>
    /\ workoutPlans = <<>>
    /\ workouts = <<>>
    /\ sessions = <<>>
    /\ messages = <<>>
    /\ contextItems = <<>>
    /\ goals = <<>>
    /\ now = 0
    /\ input \in [user_id : ExportUsers, nutrition_data : NutritionData,
                  format : ExportFormats]
    /\ output = ExportResult(FALSE, None, {}, None, None)
    /\ pc = "idle"
    /\ req = NoReq
    /\ resp = NoResp

ExportNutritionReport ==
    /\ pc = "idle"
    /\ pc' = "export_nutrition_report"
    /\ output' = export_nutrition_report(input.user_id, input.nutrition_data, input.format)
    /\ UNCHANGED input
    /\ UNCHANGED nonAIVars

NextExport == ExportNutritionReport

SpecExport == InitExport /\ [][NextExport]_vars

\* C11: for each documented format, json, csv and pdf, export_nutrition_report
\* returns success True, the report data and a filename with the matching
\* extension.
C11_ExportsEveryFormat ==
    (pc = "export_nutrition_report" /\ input.format \in {"json", "csv", "pdf"}) =>
        /\ output.success
        /\ output.format = input.format
        /\ output.extension = input.format

(* ======================== chat: session status ======================== *)

\* ChatSession.STATUS_CHOICES
SessionStatuses == {"active", "archived", "deleted"}

\* ChatSessionViewSet.get_queryset: get_object() finds the sessions of the
\* requesting user only
SessionsOf(u) == {i \in DOMAIN sessions : sessions[i].user = u}

\* ChatSessionViewSet.archive
ArchiveSession(u, sid) ==
    /\ req' = [op |-> "archive_session", user |-> u, id |-> sid]
    /\ IF sid \in SessionsOf(u)
       THEN /\ sessions' = [sessions EXCEPT ![sid].status = "archived"]
            /\ resp' = [status |-> 200]
       ELSE /\ sessions' = sessions
            /\ resp' = [status |-> 404]
    /\ UNCHANGED <<messages, contextItems, now>>
    /\ UNCHANGED nonChatVars

\* what restore writes, whatever the status was
RestoredStatus(st) == "active"

\* ChatSessionViewSet.restore
RestoreSession(u, sid) ==
    /\ req' = [op |-> "restore_session", user |-> u, id |-> sid]
    /\ IF sid \in SessionsOf(u)
       THEN /\ sessions' = [sessions EXCEPT ![sid].status = RestoredStatus(@)]
            /\ resp' = [status |-> 200]
       ELSE /\ sessions' = sessions
            /\ resp' = [status |-> 404]
    /\ UNCHANGED <<messages, contextItems, now>>
    /\ UNCHANGED nonChatVars

\* ModelViewSet update (PUT/PATCH) with ChatSessionSerializer: status is a
\* writable field
UpdateSession(u, sid, st) ==
    /\ req' = [op |-> "update_session", user |-> u, id |-> sid]
    /\ IF sid \in SessionsOf(u)
       THEN /\ sessions' = [sessions EXCEPT ![sid].status = st]
            /\ resp' = [status |-> 200]
       ELSE /\ sessions' = sessions
            /\ resp' = [status |-> 404]
    /\ UNCHANGED <<messages, contextItems, now>>
    /\ UNCHANGED nonChatVars

NextSession ==
    \/ \E u \in Users : CreateSession(u)
    \/ \E u \in Users, c \in ChatContents, p, g \in BOOLEAN : StartChat(u, c, p, g)
    \/ \E u \in Users, sid \in 1..MaxSessions, c \in ChatContents : SendMessage(u, sid, c)
    \/ \E u \in Users, sid \in 1..MaxSessions, c \in ChatContents : StreamAIResponse(u, sid, c)
    \/ \E u \in Users, sid \in 1..MaxSessions : ArchiveSession(u, sid)
    \/ \E u \in Users, sid \in 1..MaxSessions : RestoreSession(u, sid)
    \/ \E u \in Users, sid \in 1..MaxSessions, st \in SessionStatuses : UpdateSession(u, sid, st)

SpecSession == InitAll /\ [][NextSession]_vars

\* C12: restore restores archived sessions only: an archived session becomes
\* active, and a deleted session is never made active by restore.
C12_RestoresArchivedOnly ==
    [][(req'.op = "restore_session" /\ req'.id \in SessionsOf(req'.user)) =>
          /\ sessions[req'.id].status = "archived" => sessions'[req'.id].status = "active"
          /\ sessions[req'.id].status = "deleted" => sessions'[req'.id].status # "active"
      ]_vars

\* C15: send_message and stream_ai_response never create a message in a
\* session whose status is archived or deleted.
C15_ActiveSessionsOnly ==
    [][(/\ req'.op \in {"send_message", "stream_ai_response"}
        /\ req'.id \in DOMAIN sessions
        /\ sessions[req'.id].status \in {"archived", "deleted"})
       => \A i \in DOMAIN messages' \ DOMAIN messages : messages'[i].session # req'.id
      ]_vars

(* ================ nutrition: failed meal plan activation ============== *)

\* C13: activate_meal_plan with an id that is no meal plan of the requesting
\* user fails and leaves the user's meal plans unchanged: the plan that was
\* active before the call is still active after it.
C13_FailedActivationKeepsPlans ==
    [][(req'.op = "activate_meal_plan" /\ req'.id \notin MealPlansOf(req'.user)) =>
          /\ resp'.status # 200
          /\ \A i \in MealPlansOf(req'.user) :
                mealPlans'[i].is_active = mealPlans[i].is_active
      ]_vars

(* ==================== concurrent plan activations ===================== *)

(* Two activation requests of user u1 run as two server processes.  Each    *)
(* database statement of a handler is one step; the handlers open no        *)
(* transaction and take no lock, so the statements of the two requests      *)
(* interleave freely.  pc maps each request to its position, input holds    *)
(* the endpoint and the plan each request names, output the row each        *)
(* request has read (Model.save() writes the fields of that row back).      *)
Procs == {1, 2}
RaceUser == "u1"

\* tables of n rows of RaceUser with at most one active row
RaceMealTables(n) ==
    {t \in [1..n -> [user : {RaceUser}, is_active : BOOLEAN]] :
        Cardinality({i \in 1..n : t[i].is_active}) <= 1}
RaceWorkoutTables(n) ==
    {t \in [1..n -> [user : {RaceUser}, status : WorkoutPlanStatuses,
                     completed_workouts : {0}]] :
        Cardinality(ActivePlansOf(t, RaceUser)) <= 1}

\* the two requests name two different plans of the table
RaceTargets(n) == {t \in [Procs -> 1..n] : t[1] # t[2]}

InitRace ==
    /\ sessions = <<>>
    /\ messages = <<>>
    /\ contextItems = <<>>
    /\ goals = <<>>
    /\ workouts = <<>>
    /\ now = 0
    /\ req = NoReq
    /\ resp = NoResp
    /\ pc = [p \in Procs |-> "start"]
    /\ output = [p \in Procs |-> <<>>]
    /\ \/ \E n \in 2..MaxMealPlans :
            /\ mealPlans \in RaceMealTables(n)
            /\ workoutPlans = <<>>
            /\ input \in [kind : {"meal"}, target : RaceTargets(n)]
       \/ \E n \in 2..MaxWorkoutPlans :
            /\ workoutPlans \in RaceWorkoutTables(n)
            /\ mealPlans = <<>>
            /\ input \in [kind : {"workout"}, target : RaceTargets(n)]

raceFrame == <<sessions, messages, contextItems, goals, workouts, now, req, resp, input>>

\* activate_meal_plan, statement 1: the deactivating UPDATE
MealDeactivate(p) ==
    /\ input.kind = "meal" /\ pc[p] = "start"
    /\ mealPlans' = DeactivateAll(mealPlans, RaceUser)
    /\ pc' = [pc EXCEPT ![p] = "deactivated"]
    /\ UNCHANGED <<workoutPlans, output>>
    /\ UNCHANGED raceFrame

\* activate_meal_plan, statement 2: the SELECT of get_object_or_404
MealLookup(p) ==
    /\ input.kind = "meal" /\ pc[p] = "deactivated"
    /\ output' = [output EXCEPT ![p] = <<mealPlans[input.target[p]]>>]
    /\ pc' = [pc EXCEPT ![p] = "looked_up"]
    /\ UNCHANGED <<mealPlans, workoutPlans>>
    /\ UNCHANGED raceFrame

\* activate_meal_plan, statement 3: meal_plan.is_active = True; save()
MealSave(p) ==
    /\ input.kind = "meal" /\ pc[p] = "looked_up"
    /\ mealPlans' = [mealPlans EXCEPT
            ![input.target[p]] = [output[p][1] EXCEPT !.is_active = TRUE]]
    /\ pc' = [pc EXCEPT ![p] = "done"]
    /\ UNCHANGED <<workoutPlans, output>>
    /\ UNCHANGED raceFrame

\* WorkoutPlanViewSet.activate, statement 1: the SELECT of get_object()
WorkoutLookup(p) ==
    /\ input.kind = "workout" /\ pc[p] = "start"
    /\ output' = [output EXCEPT ![p] = <<workoutPlans[input.target[p]]>>]
    /\ pc' = [pc EXCEPT ![p] = "looked_up"]
    /\ UNCHANGED <<mealPlans, workoutPlans>>
    /\ UNCHANGED raceFrame

\* WorkoutPlanViewSet.activate, statement 2: the pausing UPDATE
WorkoutPause(p) ==
    /\ input.kind = "workout" /\ pc[p] = "looked_up"
    /\ workoutPlans' = PauseActive(workoutPlans, RaceUser)
    /\ pc' = [pc EXCEPT ![p] = "paused"]
    /\ UNCHANGED <<mealPlans, output>>
    /\ UNCHANGED raceFrame

\* WorkoutPlanViewSet.activate, statement 3: workout_plan.status = 'active'; save()
WorkoutSave(p) ==
    /\ input.kind = "workout" /\ pc[p] = "paused"
    /\ workoutPlans' = [workoutPlans EXCEPT
            ![input.target[p]] = [output[p][1] EXCEPT !.status = "active"]]
    /\ pc' = [pc EXCEPT ![p] = "done"]
    /\ UNCHANGED <<mealPlans, output>>
    /\ UNCHANGED raceFrame

NextRace ==
    \/ \E p \in Procs : MealDeactivate(p)
    \/ \E p \in Procs : MealLookup(p)
    \/ \E p \in Procs : MealSave(p)
    \/ \E p \in Procs : WorkoutLookup(p)
    \/ \E p \in Procs : WorkoutPause(p)
    \/ \E p \in Procs : WorkoutSave(p)

SpecRace == InitRace /\ [][NextRace]_vars

\* C14: starting with at most one active plan, once two interleaved
\* activation requests of the user for two different plans have both
\* finished, the user still has at most one active plan (workout plans and
\* meal plans alike).
C14_AtMostOneActiveAfterRace ==
    (\A p \in Procs : pc[p] = "done") =>
        /\ Cardinality(ActivePlansOf(workoutPlans, RaceUser)) <= 1
        /\ Cardinality({i \in DOMAIN mealPlans :
                mealPlans[i].user = RaceUser /\ mealPlans[i].is_active}) <= 1

(* ================== fitness: workout plan confidence ================== *)

MaxExercises == 4

\* the categories of the exercises of a plan; 'unknown' when an exercise
\* carries none
ExerciseCategories == {"strength", "cardio", "flexibility", "unknown"}

\* an entry of exercises_database after _validate_and_enhance_exercises:
\* whether it has a database_id, and its category
ExerciseEntries == [database_id : BOOLEAN, category : ExerciseCategories]

\* plan_data as _calculate_plan_confidence reads it
ConfidencePlans ==
    [exercises : UNION {[1..k -> ExerciseEntries] : k \in 0..MaxExercises},
     program_overview : BOOLEAN, weekly_schedule : BOOLEAN,
     progression_plan : BOOLEAN]

\* WorkoutPlanningService._calculate_plan_confidence, as the exact fraction
\* num / den:
\*   db_coverage * 0.3 + structure_score + min(len(categories) / 4, 1.0) * 0.2
_calculate_plan_confidence(plan_data) ==
    LET ex == plan_data.exercises
        total_exercises == Len(ex)
        db_exercises == Cardinality({i \in DOMAIN ex : ex[i].database_id})
        categories == {ex[i].category : i \in DOMAIN ex}
        \* structure_score in tenths
        structure == (IF plan_data.program_overview THEN 2 ELSE 0)
                     + (IF plan_data.weekly_schedule THEN 3 ELSE 0)
                     + (IF plan_data.progression_plan THEN 2 ELSE 0)
        variety == Min(Cardinality(categories), 4)
    IN IF total_exercises > 0
       THEN [num |-> 12 * db_exercises + 4 * total_exercises * structure
                     + 2 * total_exercises * variety,
             den |-> 40 * total_exercises]
       ELSE [num |-> structure, den |-> 10]

InitConfidence ==
    /\ mealPlans = <<>>
    /\ workoutPlans = <<>>
    /\ workouts = <<>>
    /\ sessions = <<>>
    /\ messages = <<>>
    /\ contextItems = <<>>
    /\ goals = <<>>
    /\ now = 0
    /\ input \in ConfidencePlans
    /\ output = [num |-> 0, den |-> 1]
    /\ pc = "idle"
    /\ req = NoReq
    /\ resp = NoResp

CalculatePlanConfidence ==
    /\ pc = "idle"
    /\ pc' = "_calculate_plan_confidence"
    /\ output' = _calculate_plan_confidence(input)
    /\ UNCHANGED input
    /\ UNCHANGED nonAIVars

NextConfidence == CalculatePlanConfidence

SpecConfidence == InitConfidence /\ [][NextConfidence]_vars

\* C16: the confidence score computed for a generated workout plan always
\* lies between 0 and 1 inclusive.
C16_ConfidenceInUnitRange ==
    pc = "_calculate_plan_confidence" =>
        /\ output.num >= 0
        /\ output.num <= output.den

(* ================== chat: preferences of a message ==================== *)

MaxWords == 3

\* the words of the user messages, lower case
PreferenceWords == {"i", "love", "like", "enjoy", "hate", "dislike", "avoid", "pizza"}
PreferenceMessages == UNION {[1..k -> PreferenceWords] : k \in 0..MaxWords}

\* the session's stored preferences before the message: none, or the likes
\* extracted from an earlier message
EarlierPreferences ==
    {<<>>,
     <<NewContext(1, "nutrition_preferences", <<"extracted_preferences", 0>>,
                  [k \in {"food_likes"} |-> <<"salad">>], 6, NullTime)>>}

InitPreferences ==
    /\ mealPlans = <<>>
    /\ workoutPlans = <<>>
    /\ workouts = <<>>
    /\ sessions = <<[user |-> "u1", status |-> "active", message_count |-> 0,
                     last_activity |-> 0, context_data |-> EmptyDict,
                     satisfaction_rating |-> 0, title |-> <<>>]>>
    /\ messages = <<>>
    /\ contextItems \in EarlierPreferences
    /\ goals = <<>>
    /\ now = 0
    /\ input \in PreferenceMessages
    /\ output = None
    /\ pc = "idle"
    /\ req = NoReq
    /\ resp = NoResp

ExtractPreferencesFromMessage ==
    /\ pc = "idle"
    /\ pc' = "_extract_preferences_from_message"
    /\ contextItems' = _extract_preferences_from_message(contextItems, 1, input)
    /\ UNCHANGED <<mealPlans, workoutPlans, workouts, sessions, messages, goals,
                   now, input, output, req, resp>>

NextPreferences == ExtractPreferencesFromMessage

SpecPreferences == InitPreferences /\ [][NextPreferences]_vars

\* the words stored under a key of the session's extracted preferences
StoredPreference(key) ==
    LET found == FindContext(contextItems, 1, "nutrition_preferences",
                             <<"extracted_preferences", 0>>)
    IN IF found = 0 THEN {}
       ELSE IF key \notin DOMAIN contextItems[found].value THEN {}
       ELSE {contextItems[found].value[key][i] :
                i \in DOMAIN contextItems[found].value[key]}

\* C17: after _extract_preferences_from_message has processed a message, the
\* word following any occurrence of hate, dislike or avoid is in the
\* session's food_dislikes and the word following any occurrence of love,
\* like or enjoy is in its food_likes.
C17_FollowingWordRecorded ==
    pc = "_extract_preferences_from_message" =>
        \A i \in 1..(Len(input) - 1) :
            /\ input[i] \in {"hate", "dislike", "avoid"} =>
                    input[i + 1] \in StoredPreference("food_dislikes")
            /\ input[i] \in {"love", "like", "enjoy"} =>
                    input[i + 1] \in StoredPreference("food_likes")

====
